---- MODULE Spec2Model ----
(***************************************************************************)
(* Content selection and effect planning engine of e-la-la:                *)
(*   src/src/edit/rich_effects.py   plan_rich_effects                      *)
(*   src/src/analysis/semantic.py   pick_idea_endpoint                     *)
(*   src/src/analysis/engagement.py _score_series, best_window,            *)
(*                                  top_windows_multi                      *)
(*                                                                         *)
(* Every function is a synchronous call: one action per call, the inputs   *)
(* drawn by the Init of the function's specification.                      *)
(*                                                                         *)
(* Time.  The planner halves a segment's duration (mid_point), so the      *)
(* planner's times are counted in half seconds: its inputs are whole       *)
(* seconds, HalfSec(n) half seconds each, and every value the planner      *)
(* computes is then an exact integer.  The picker and the window scorer    *)
(* only add, subtract and compare times, which are integers there.         *)
(***************************************************************************)
EXTENDS Integers, Sequences, FiniteSets, TLC

VARIABLES
    \* ---- plan_rich_effects -------------------------------------------
    planPc,            \* "idle" | "start" | "done"
    duration,          \* argument duration (half seconds)
    person_segments,   \* the caller's list object (sorted in place by the call)
    segments_given,    \* the list's contents when the call was made
    effects,           \* the returned list of EffectSegment
    \* ---- pick_idea_endpoint ------------------------------------------
    pickPc,            \* "idle" | "start" | "done"
    transcript,        \* None, or a sequence of transcript segments
    silences,          \* sequence of <<start, end>>
    start_hint, min_dur, max_dur,
    cand_transcript,   \* the local cand_transcript when the call returns
    cand_silence,      \* the local cand_silence when the call returns
    pickResult,        \* the outcome of the call
    \* ---- _score_series / best_window / top_windows_multi ---------------
    winPc,             \* "idle" | "start_best" | "start_multi" | "best_done" | "multi_done" | "raised"
    audioLen,          \* len(y): samples of the decoded audio
    sampleRate,        \* sr
    window_sec,        \* best_window's window_sec
    durations,         \* top_windows_multi's durations
    stride_sec, max_clips, min_gap_sec,
    series,            \* the score series the call computed (one per duration)
    candidates,        \* top_windows_multi's sorted candidate pool
    winResult,         \* the outcome of the call
    \* ---- detect_people_segments ---------------------------------------
    detPc,             \* "idle" | "start" | "loop" | "returned" | "raised" | "planned"
    videoOpens,        \* cap.isOpened()
    fps,               \* frames per second of the video
    total_frames,      \* CAP_PROP_FRAME_COUNT
    sample_interval,   \* argument sample_interval (seconds)
    frame_idx,         \* the loop variable of range(0, total_frames, sample_frames)
    samples,           \* the samples read so far: time, person_count, max weight
    segments,          \* the local list segments
    current_segment,   \* the local current_segment: None or an open PersonSegment
    detResult,         \* the outcome of the call
    \* ---- _score_series: the raw audio and motion series ----------------
    serPc,             \* "idle" | "start" | "audio_done" | "done" | "raised"
    capOpens,          \* cap.isOpened() of the video capture
    frameDiffs,        \* the local acc: the frame differences read from the video
    rmsStarts,         \* the stride positions s whose chunk entered the audio series
    rms,               \* the raw audio series
    motion_series,     \* the raw motion series
    \* run_pipeline_multi (times in tenths of a second)
    pipePc,            \* "idle", "start", "done"
    idea_end,          \* the idea_end argument
    head_pad_sec,      \* the head_pad_sec argument
    tail_pad_sec,      \* the tail_pad_sec argument
    media_dur,         \* the probed media duration, 0 when the probe failed
    cuts               \* the cut_segment calls made, as <<start, duration>>

planVars == <<planPc, duration, person_segments, segments_given, effects>>
pickVars == <<pickPc, transcript, silences, start_hint, min_dur, max_dur,
              cand_transcript, cand_silence, pickResult>>
winVars  == <<winPc, audioLen, sampleRate, window_sec, durations, stride_sec,
              max_clips, min_gap_sec, series, candidates, winResult>>
detVars  == <<detPc, videoOpens, fps, total_frames, sample_interval, frame_idx,
              samples, segments, current_segment, detResult>>
serVars  == <<serPc, capOpens, frameDiffs, rmsStarts, rms, motion_series>>
pipeVars == <<pipePc, idea_end, head_pad_sec, tail_pad_sec, media_dur, cuts>>
vars     == <<planVars, pickVars, winVars, detVars, serVars, pipeVars>>

\* An Optional value: Python's None is the empty tuple, a value v is <<v>>.
None == <<>>
Some(v) == <<v>>

\* The outcome of a call: it returned a value, or it raised.
Returned(v) == [kind |-> "return", value |-> v]
Raised(e)   == [kind |-> "raise", value |-> e]
NoCall      == [kind |-> "none", value |-> <<>>]

Last(s) == s[Len(s)]
Min(a, b) == IF a <= b THEN a ELSE b
Max(a, b) == IF a >= b THEN a ELSE b

(***************************************************************************)
(* Bounds of the model.                                                    *)
(***************************************************************************)
MaxSec == 10        \* planner: video length in whole seconds
MaxPersons == 2     \* planner: person_count of a segment
PlanLens == 0..2    \* planner: number of person segments
MaxDur == 2         \* picker: min_dur and max_dur
PickHints == 0..1   \* picker: start_hint
PickLens == 0..2    \* picker: number of transcript segments, of silences
MaxAudioLen == 4    \* scorer: samples of audio
MaxWinSec == 2      \* scorer: window_sec, and each of durations
MaxClips == 3       \* scorer: max_clips
MaxStride == 2      \* scorer: stride_sec
MaxGap == 1         \* scorer: min_gap_sec
MaxSampleRate == 2  \* scorer: samples per second
WinLens == 1..2     \* scorer: number of durations
Scores == -1..1     \* scorer: the values of a fused score series
MaxFrames == 5      \* detector: frames of the video
MaxInterval == 2    \* detector: sample_interval, whole seconds
FrameRates == {1, 2}    \* detector: fps, chosen so that every time is a half second
Confidences == {1, 2}   \* detector: levels of a weight above confidence_threshold
MaxDiff == 1        \* series: a frame difference (mean absolute difference)
DiffLens == 0..3    \* series: number of frame differences read
Energies == {0, 1}  \* series: the rms of a non-empty chunk
MaxRebinDiffs == 30     \* re-binning: number of frame differences
MaxRebinWindows == 22   \* re-binning: number of audio windows

(***************************************************************************)
(* plan_rich_effects                                                       *)
(***************************************************************************)
HalfSec(n) == 2 * n

\* The literals of rich_effects.py, in seconds.
GapSec == 1
LongMultiSec == 8
LongSingleSec == 5

PersonSegment(s, e, n, c) ==
    [start_sec |-> s, end_sec |-> e, person_count |-> n, confidence |-> c]

EffectSegment(s, e, t, p) ==
    [start_sec |-> s, end_sec |-> e, effect_type |-> t, params |-> p]

\* list.sort(key=lambda x: x.start_sec): Python's sort is stable, so an
\* element goes after every element whose key is not greater than its own.
RECURSIVE InsertByStart(_, _)
InsertByStart(x, s) ==
    IF s = <<>> THEN <<x>>
    ELSE IF Head(s).start_sec <= x.start_sec
         THEN <<Head(s)>> \o InsertByStart(x, Tail(s))
         ELSE <<x>> \o s

RECURSIVE SortByStart(_)
SortByStart(s) ==
    IF s = <<>> THEN <<>>
    ELSE InsertByStart(Last(s), SortByStart(SubSeq(s, 1, Len(s) - 1)))

\* Mutant of NeedsFiller: a gap of exactly 1.0 s is filled too.
NeedsFillerAtGap(segStart, current_time) == segStart >= current_time + HalfSec(GapSec)

\* if segment.start_sec > current_time + 1.0
NeedsFiller(segStart, current_time) == segStart > current_time + HalfSec(GapSec)

FullFrame(s, e) == EffectSegment(s, e, "full_frame", [transition |-> "fade"])

\* mid_point = segment.start_sec + segment_duration / 2
MidPoint(seg) == seg.start_sec + (seg.end_sec - seg.start_sec) \div 2

\* Mutant of SegmentEffects: the two duration thresholds are inclusive.
SegmentEffectsInclusive(seg) ==
    LET d == seg.end_sec - seg.start_sec IN
    IF seg.person_count >= 2 /\ d >= HalfSec(LongMultiSec) THEN
        << EffectSegment(seg.start_sec, MidPoint(seg), "zoom_in",
                         [target_scale |-> 15, focus |-> "left"]),
           EffectSegment(MidPoint(seg), seg.end_sec, "split_screen",
                         [orientation |-> "horizontal"]) >>
    ELSE IF seg.person_count >= 2 THEN
        << EffectSegment(seg.start_sec, seg.end_sec, "zoom_in",
                         [target_scale |-> 13, focus |-> "center"]) >>
    ELSE IF seg.person_count = 1 /\ d >= HalfSec(LongSingleSec) THEN
        << EffectSegment(seg.start_sec, MidPoint(seg), "zoom_in",
                         [target_scale |-> 14, focus |-> "center"]),
           EffectSegment(MidPoint(seg), seg.end_sec, "pan_left",
                         [zoom_scale |-> 12]) >>
    ELSE
        << EffectSegment(seg.start_sec, seg.end_sec, "zoom_in",
                         [target_scale |-> 12, focus |-> "center"]) >>

\* The effects of one person segment (the if/elif chain); scales in tenths.
SegmentEffects(seg) ==
    LET d == seg.end_sec - seg.start_sec IN
    IF seg.person_count >= 2 /\ d > HalfSec(LongMultiSec) THEN
        << EffectSegment(seg.start_sec, MidPoint(seg), "zoom_in",
                         [target_scale |-> 15, focus |-> "left"]),
           EffectSegment(MidPoint(seg), seg.end_sec, "split_screen",
                         [orientation |-> "horizontal"]) >>
    ELSE IF seg.person_count >= 2 THEN
        << EffectSegment(seg.start_sec, seg.end_sec, "zoom_in",
                         [target_scale |-> 13, focus |-> "center"]) >>
    ELSE IF seg.person_count = 1 /\ d > HalfSec(LongSingleSec) THEN
        << EffectSegment(seg.start_sec, MidPoint(seg), "zoom_in",
                         [target_scale |-> 14, focus |-> "center"]),
           EffectSegment(MidPoint(seg), seg.end_sec, "pan_left",
                         [zoom_scale |-> 12]) >>
    ELSE
        << EffectSegment(seg.start_sec, seg.end_sec, "zoom_in",
                         [target_scale |-> 12, focus |-> "center"]) >>

\* The filler before a segment, when there is one.
FillerBefore(seg, current_time) ==
    IF NeedsFiller(seg.start_sec, current_time)
    THEN <<FullFrame(current_time, seg.start_sec)>>
    ELSE <<>>

\* Mutant of FinalFiller: the gap tolerance of the loop applied to the tail.
FinalFillerAfterGap(current_time, dur) ==
    IF current_time + HalfSec(GapSec) < dur
    THEN <<FullFrame(current_time, dur)>> ELSE <<>>

\* if current_time < duration: the trailing full_frame
FinalFiller(current_time, dur) ==
    IF current_time < dur THEN <<FullFrame(current_time, dur)>> ELSE <<>>

\* The for loop over the sorted segments, from effects acc and current_time.
RECURSIVE PlanLoop(_, _, _, _)
PlanLoop(segs, acc, current_time, dur) ==
    IF segs = <<>> THEN acc \o FinalFiller(current_time, dur)
    ELSE LET seg == Head(segs) IN
         PlanLoop(Tail(segs),
                  acc \o FillerBefore(seg, current_time) \o SegmentEffects(seg),
                  seg.end_sec, dur)

plan_rich_effects(dur, sortedSegs) == PlanLoop(sortedSegs, <<>>, 0, dur)

\* ---- the inputs of a call ------------------------------------------------
\* 0 <= start <= end <= duration, pairwise non-overlapping, in any order.
SegmentsUpTo(totalSec) ==
    { PersonSegment(HalfSec(s), HalfSec(e), n, 0) :
        s \in 0..totalSec, e \in 0..totalSec, n \in 0..MaxPersons }

Disjoint(a, b) == a.end_sec <= b.start_sec \/ b.end_sec <= a.start_sec

ValidSegmentList(l, dur) ==
    /\ \A i \in 1..Len(l) :
        0 <= l[i].start_sec /\ l[i].start_sec <= l[i].end_sec /\ l[i].end_sec <= dur
    /\ \A i, j \in 1..Len(l) : i < j => Disjoint(l[i], l[j])

SegmentLists(totalSec) ==
    { l \in UNION { [1..k -> SegmentsUpTo(totalSec)] : k \in PlanLens } :
        ValidSegmentList(l, HalfSec(totalSec)) }

PlanIdle ==
    /\ planPc = "idle" /\ duration = 0 /\ person_segments = <<>>
    /\ segments_given = <<>> /\ effects = <<>>

PickIdle ==
    /\ pickPc = "idle" /\ transcript = None /\ silences = <<>>
    /\ start_hint = 0 /\ min_dur = 0 /\ max_dur = 0
    /\ cand_transcript = None /\ cand_silence = None /\ pickResult = NoCall

WinIdle ==
    /\ winPc = "idle" /\ audioLen = 0 /\ sampleRate = 1 /\ window_sec = 0
    /\ durations = <<>> /\ stride_sec = 0 /\ max_clips = 0 /\ min_gap_sec = 0
    /\ series = <<>> /\ candidates = <<>> /\ winResult = NoCall

DetIdle ==
    /\ detPc = "idle" /\ videoOpens = FALSE /\ fps = 1 /\ total_frames = 0
    /\ sample_interval = 0 /\ frame_idx = 0 /\ samples = <<>>
    /\ segments = <<>> /\ current_segment = None /\ detResult = NoCall

SerIdle ==
    /\ serPc = "idle" /\ capOpens = FALSE /\ frameDiffs = <<>>
    /\ rmsStarts = <<>> /\ rms = <<>> /\ motion_series = <<>>

PipeIdle ==
    /\ pipePc = "idle" /\ idea_end = FALSE /\ head_pad_sec = 0
    /\ tail_pad_sec = 0 /\ media_dur = 0 /\ cuts = <<>>

InitPlan ==
    /\ planPc = "start"
    /\ \E t \in 0..MaxSec :
        /\ duration = HalfSec(t)
        /\ person_segments \in SegmentLists(t)
    /\ segments_given = person_segments
    /\ effects = <<>>
    /\ PickIdle /\ WinIdle /\ DetIdle /\ SerIdle /\ PipeIdle

\* The call plan_rich_effects(input_path, duration, person_segments).
PlanRichEffects ==
    /\ planPc = "start"
    /\ person_segments' = SortByStart(person_segments)
    /\ effects' = plan_rich_effects(duration, SortByStart(person_segments))
    /\ planPc' = "done"
    /\ UNCHANGED <<duration, segments_given, pickVars, winVars, detVars, serVars, pipeVars>>

NextPlan == PlanRichEffects

SpecPlan == InitPlan /\ [][NextPlan]_vars

(***************************************************************************)
(* pick_idea_endpoint                                                      *)
(***************************************************************************)
\* A text is a sequence of characters; these are whitespace to str.strip().
Whitespace == {" "}

RECURSIVE LStrip(_)
LStrip(t) == IF t # <<>> /\ Head(t) \in Whitespace THEN LStrip(Tail(t)) ELSE t

RECURSIVE RStrip(_)
RStrip(t) ==
    IF t # <<>> /\ Last(t) \in Whitespace THEN RStrip(SubSeq(t, 1, Len(t) - 1)) ELSE t

\* str.strip()
Strip(t) == RStrip(LStrip(t))

\* text.endswith(('.', '!', '?'))
EndsWithPunct(t) == t # <<>> /\ Last(t) \in {".", "!", "?"}

\* text = (seg.get('text') or '').strip()
TextOf(seg) == Strip(IF seg.text = None THEN <<>> ELSE seg.text[1])

\* seg_end = float(seg.get('end', 0.0))
SegEnd(seg) == IF seg.end = None THEN 0 ELSE seg.end[1]

\* not (seg_end < min_end or seg_end > max_end); seg_end >= min_end and seg_end <= max_end
SegEndInRange(seg_end, min_end, max_end) == ~(seg_end < min_end \/ seg_end > max_end)

\* Mutant of SilenceInRange: the upper end of the range is not tested.
SilenceInRangeNoUpper(s, min_end, max_end) == s >= min_end

\* s >= min_end and s <= max_end
SilenceInRange(s, min_end, max_end) == s >= min_end /\ s <= max_end

\* The first loop: the first in-range segment whose text ends a sentence.
RECURSIVE FirstPunctuated(_, _, _)
FirstPunctuated(segs, min_end, max_end) ==
    IF segs = <<>> THEN None
    ELSE IF SegEndInRange(SegEnd(Head(segs)), min_end, max_end)
            /\ EndsWithPunct(TextOf(Head(segs)))
         THEN Some(SegEnd(Head(segs)))
         ELSE FirstPunctuated(Tail(segs), min_end, max_end)

\* The fallback loop: the first in-range segment.
RECURSIVE FirstInRange(_, _, _)
FirstInRange(segs, min_end, max_end) ==
    IF segs = <<>> THEN None
    ELSE IF SegEndInRange(SegEnd(Head(segs)), min_end, max_end)
         THEN Some(SegEnd(Head(segs)))
         ELSE FirstInRange(Tail(segs), min_end, max_end)

\* Mutant of CandTranscript: the first in-range segment, punctuated or not.
CandTranscriptNoPreference(tr, min_end, max_end) ==
    IF tr = None THEN None ELSE FirstInRange(tr[1], min_end, max_end)

\* cand_transcript; a transcript is None or Some(its 'segments' list).
CandTranscript(tr, min_end, max_end) ==
    IF tr = None THEN None
    ELSE LET p == FirstPunctuated(tr[1], min_end, max_end) IN
         IF p # None THEN p ELSE FirstInRange(tr[1], min_end, max_end)

\* Mutant of CandSilence: the earliest in-range silence, not the first listed.
CandSilenceEarliest(sils, min_end, max_end) ==
    LET inRange == { i \in 1..Len(sils) : SilenceInRange(sils[i][1], min_end, max_end) }
    IN IF inRange = {} THEN None
       ELSE Some(CHOOSE t \in { sils[i][1] : i \in inRange } :
                    \A i \in inRange : t <= sils[i][1])

\* cand_silence: the first silence, as listed, that starts in range.
RECURSIVE CandSilence(_, _, _)
CandSilence(sils, min_end, max_end) ==
    IF sils = <<>> THEN None
    ELSE IF SilenceInRange(Head(sils)[1], min_end, max_end)
         THEN Some(Head(sils)[1])
         ELSE CandSilence(Tail(sils), min_end, max_end)

\* Mutant of Decide: the docstring's order of preference, the transcript first.
DecidePreferTranscript(ct, cs, max_end) ==
    IF ct # None THEN ct[1]
    ELSE IF cs # None THEN cs[1]
    ELSE max_end

\* The "Decide" block.
Decide(ct, cs, max_end) ==
    IF ct # None /\ cs # None THEN Min(ct[1], cs[1])
    ELSE IF ct # None THEN ct[1]
    ELSE IF cs # None THEN cs[1]
    ELSE max_end

\* ---- the inputs of a call ------------------------------------------------
PickTimes == 0..(MaxDur + 2)

Texts ==
    { None, Some(<<"a">>), Some(<<"a", ".", " ">>), Some(<<"?", "a">>),
      Some(<<"!">>), Some(<<" ", "a", "?">>) }

TranscriptSegments == { [end |-> Some(e), text |-> t] : e \in PickTimes, t \in Texts }

Transcripts ==
    {None} \cup { Some(l) : l \in UNION { [1..k -> TranscriptSegments] : k \in PickLens } }

SilenceIntervals == { <<s, s + 1>> : s \in PickTimes }

SilenceLists == UNION { [1..k -> SilenceIntervals] : k \in PickLens }

InitPick ==
    /\ pickPc = "start"
    /\ transcript \in Transcripts
    /\ silences \in SilenceLists
    /\ start_hint \in PickHints
    /\ min_dur \in 0..MaxDur
    /\ max_dur \in 0..MaxDur
    /\ cand_transcript = None /\ cand_silence = None /\ pickResult = NoCall
    /\ PlanIdle /\ WinIdle /\ DetIdle /\ SerIdle /\ PipeIdle

\* The call pick_idea_endpoint(transcript, silences, start_hint, min_dur, max_dur).
PickIdeaEndpoint ==
    /\ pickPc = "start"
    /\ LET min_end == start_hint + min_dur
           max_end == start_hint + max_dur
           ct == CandTranscript(transcript, min_end, max_end)
           cs == CandSilence(silences, min_end, max_end)
       IN /\ cand_transcript' = ct
          /\ cand_silence' = cs
          /\ pickResult' = Returned(Decide(ct, cs, max_end))
    /\ pickPc' = "done"
    /\ UNCHANGED <<transcript, silences, start_hint, min_dur, max_dur, planVars, winVars, detVars, serVars, pipeVars>>

NextPick == PickIdeaEndpoint

SpecPick == InitPick /\ [][NextPick]_vars

(***************************************************************************)
(* _score_series, best_window, top_windows_multi                           *)
(***************************************************************************)
\* The values of range(0, stop, step), or the ValueError of a zero step.
RangeFromZero(stop, step) ==
    IF step = 0 THEN Raised("ValueError")
    ELSE IF step < 0 \/ stop <= 0 THEN Returned(<<>>)
    ELSE Returned([k \in 1..((stop - 1) \div step + 1) |-> (k - 1) * step])

\* len(y[a:b]) for a >= 0 and len(y) = n: a negative b counts from the end.
SliceLen(n, a, b) ==
    LET lo == Min(a, n)
        hi == IF b < 0 THEN Max(b + n, 0) ELSE Min(b, n)
    IN Max(hi - lo, 0)

\* The rms list of _score_series: one entry per non-empty chunk, and the
\* single 0.0 when there is none.  Returned(number of entries), or the raise.
RmsCount(len_y, sr, window, stride) ==
    LET hop == stride * sr
        win == window * sr
        r   == RangeFromZero(Max(1, len_y - win), hop)
    IN IF r.kind = "raise" THEN r
       ELSE LET kept == { k \in 1..Len(r.value) :
                            SliceLen(len_y, r.value[k], r.value[k] + win) # 0 }
            IN Returned(IF kept = {} THEN 1 ELSE Cardinality(kept))

\* The fused series 0.6*norm(rms) + 0.4*norm(motion) of n windows: norm maps
\* a series of one entry to 0.0, and the media's content decides the rest.
FusedSeries(n) == IF n = 1 THEN { <<0>> } ELSE [1..n -> Scores]

\* int(np.argmax(score)): the index (from 0) of the first maximum, found by
\* a scan that moves on only to a strictly greater entry.
RECURSIVE ArgMaxFrom(_, _, _)
ArgMaxFrom(score, k, best) ==
    IF k > Len(score) THEN best - 1
    ELSE ArgMaxFrom(score, k + 1, IF score[k] > score[best] THEN k ELSE best)

\* Mutant of ArgMax: the scan also moves on to an equal entry (the last maximum).
RECURSIVE ArgMaxLastFrom(_, _, _)
ArgMaxLastFrom(score, k, best) ==
    IF k > Len(score) THEN best - 1
    ELSE ArgMaxLastFrom(score, k + 1, IF score[k] >= score[best] THEN k ELSE best)

ArgMaxLast(score) == ArgMaxLastFrom(score, 2, 1)

ArgMax(score) == ArgMaxFrom(score, 2, 1)

\* best_window's result for a score series: (start_sec, score).
BestOf(score, stride) ==
    LET best_idx == IF Len(score) # 0 THEN ArgMax(score) ELSE 0
    IN << best_idx * stride, IF Len(score) # 0 THEN score[best_idx + 1] ELSE 0 >>

Window(start, dur, sc) == [start |-> start, dur |-> dur, score |-> sc]

\* The candidates of one duration: (i * stride, dur, sc) for i, sc in enumerate(s).
CandidatesOf(score, dur, stride) ==
    [i \in 1..Len(score) |-> Window((i - 1) * stride, dur, score[i])]

\* The pooling loop over durations with their score series.
RECURSIVE Pool(_, _, _)
Pool(durs, ss, stride) ==
    IF durs = <<>> THEN <<>>
    ELSE CandidatesOf(Head(ss), Head(durs), stride) \o Pool(Tail(durs), Tail(ss), stride)

\* Mutant of InsertByScoreDesc: an unstable descending sort, which puts an
\* element before the elements of equal score.
RECURSIVE InsertByScoreDescUnstable(_, _)
InsertByScoreDescUnstable(x, s) ==
    IF s = <<>> THEN <<x>>
    ELSE IF Head(s).score > x.score
         THEN <<Head(s)>> \o InsertByScoreDescUnstable(x, Tail(s))
         ELSE <<x>> \o s

\* candidates.sort(key=lambda t: t[2], reverse=True): stable, so an element
\* goes after every element whose score is not less than its own.
RECURSIVE InsertByScoreDesc(_, _)
InsertByScoreDesc(x, s) ==
    IF s = <<>> THEN <<x>>
    ELSE IF Head(s).score >= x.score
         THEN <<Head(s)>> \o InsertByScoreDesc(x, Tail(s))
         ELSE <<x>> \o s

\* Mutant of SortByScoreDesc: the pool is walked in pooling order.
KeepPoolOrder(s) == s

RECURSIVE SortByScoreDesc(_)
SortByScoreDesc(s) ==
    IF s = <<>> THEN <<>>
    ELSE InsertByScoreDesc(Last(s), SortByScoreDesc(SubSeq(s, 1, Len(s) - 1)))

\* chosen.sort(key=lambda t: t[0])
RECURSIVE InsertByWinStart(_, _)
InsertByWinStart(x, s) ==
    IF s = <<>> THEN <<x>>
    ELSE IF Head(s).start <= x.start
         THEN <<Head(s)>> \o InsertByWinStart(x, Tail(s))
         ELSE <<x>> \o s

\* Mutant of SortByWinStart: the chosen list is left in acceptance order.
KeepAcceptOrder(s) == s

RECURSIVE SortByWinStart(_)
SortByWinStart(s) ==
    IF s = <<>> THEN <<>>
    ELSE InsertByWinStart(Last(s), SortByWinStart(SubSeq(s, 1, Len(s) - 1)))

\* Mutant of Overlaps: the min_gap_sec buffer is left out.
OverlapsNoGap(a, b, gap) ==
    ~(a.start + a.dur <= b.start \/ b.start + b.dur <= a.start)

\* overlaps(a, b)
Overlaps(a, b, gap) ==
    LET a0 == a.start
        a1 == a.start + a.dur
        b0 == b.start
        b1 == b.start + b.dur
    IN ~(a1 + gap <= b0 \/ b1 + gap <= a0)

\* Mutant of Greedy: a candidate is tested against the last accepted window only.
RECURSIVE GreedyLastOnly(_, _, _, _)
GreedyLastOnly(cands, chosen, maxClips, gap) ==
    IF cands = <<>> THEN chosen
    ELSE IF Len(chosen) >= maxClips THEN chosen
    ELSE IF chosen # <<>> /\ Overlaps(Head(cands), Last(chosen), gap)
         THEN GreedyLastOnly(Tail(cands), chosen, maxClips, gap)
         ELSE GreedyLastOnly(Tail(cands), Append(chosen, Head(cands)), maxClips, gap)

\* Mutant of Greedy: the loop ends at the first rejected candidate.
RECURSIVE GreedyStopAtReject(_, _, _, _)
GreedyStopAtReject(cands, chosen, maxClips, gap) ==
    IF cands = <<>> THEN chosen
    ELSE IF Len(chosen) >= maxClips THEN chosen
    ELSE IF \E i \in 1..Len(chosen) : Overlaps(Head(cands), chosen[i], gap)
         THEN chosen
         ELSE GreedyStopAtReject(Tail(cands), Append(chosen, Head(cands)), maxClips, gap)

\* The accept/reject loop over the sorted candidates.
RECURSIVE Greedy(_, _, _, _)
Greedy(cands, chosen, maxClips, gap) ==
    IF cands = <<>> THEN chosen
    ELSE IF Len(chosen) >= maxClips THEN chosen
    ELSE IF \E i \in 1..Len(chosen) : Overlaps(Head(cands), chosen[i], gap)
         THEN Greedy(Tail(cands), chosen, maxClips, gap)
         ELSE Greedy(Tail(cands), Append(chosen, Head(cands)), maxClips, gap)

\* The set of lists of score series, one per duration; a raise of
\* _score_series for one duration is a raise of the whole call.
RECURSIVE SeriesLists(_, _, _, _)
SeriesLists(durs, len_y, sr, stride) ==
    IF durs = <<>> THEN { <<>> }
    ELSE LET n == RmsCount(len_y, sr, Head(durs), stride) IN
         IF n.kind = "raise" THEN {}
         ELSE { <<s>> \o rest : s \in FusedSeries(n.value),
                                rest \in SeriesLists(Tail(durs), len_y, sr, stride) }

ScoreSeriesRaises(durs, len_y, sr, stride) ==
    \E i \in 1..Len(durs) : RmsCount(len_y, sr, durs[i], stride).kind = "raise"

\* ---- the inputs of a call ------------------------------------------------
\* Non-positive values too: the code accepts them.
WinSecs == -1..MaxWinSec
Strides == -1..MaxStride

InitBest ==
    /\ winPc = "start_best"
    /\ audioLen \in 0..MaxAudioLen
    /\ sampleRate \in 1..MaxSampleRate
    /\ window_sec \in WinSecs
    /\ stride_sec \in Strides
    /\ durations = <<>> /\ max_clips = 0 /\ min_gap_sec = 0

InitMulti ==
    /\ winPc = "start_multi"
    /\ audioLen \in 0..MaxAudioLen
    /\ sampleRate \in 1..MaxSampleRate
    /\ window_sec = 0
    /\ stride_sec \in Strides
    /\ durations \in UNION { [1..k -> WinSecs] : k \in WinLens }
    /\ max_clips \in 0..MaxClips
    /\ min_gap_sec \in 0..MaxGap

InitWin ==
    /\ InitBest \/ InitMulti
    /\ series = <<>> /\ candidates = <<>> /\ winResult = NoCall
    /\ PlanIdle /\ PickIdle /\ DetIdle /\ SerIdle /\ PipeIdle

winInputs == <<audioLen, sampleRate, window_sec, durations, stride_sec,
               max_clips, min_gap_sec>>

\* The call best_window(path, window_sec, stride_sec) returns.
BestWindow ==
    /\ winPc = "start_best"
    /\ \E ss \in SeriesLists(<<window_sec>>, audioLen, sampleRate, stride_sec) :
        /\ series' = ss
        /\ winResult' = Returned(BestOf(ss[1], stride_sec))
    /\ winPc' = "best_done"
    /\ UNCHANGED <<winInputs, candidates, planVars, pickVars, detVars, serVars, pipeVars>>

\* The call top_windows_multi(path, durations, stride_sec, max_clips, min_gap_sec)
\* returns.
TopWindowsMulti ==
    /\ winPc = "start_multi"
    /\ \E ss \in SeriesLists(durations, audioLen, sampleRate, stride_sec) :
        LET sorted == SortByScoreDesc(Pool(durations, ss, stride_sec)) IN
        /\ series' = ss
        /\ candidates' = sorted
        /\ winResult' =
             Returned(SortByWinStart(Greedy(sorted, <<>>, max_clips, min_gap_sec)))
    /\ winPc' = "multi_done"
    /\ UNCHANGED <<winInputs, planVars, pickVars, detVars, serVars, pipeVars>>

\* Either call raises out of _score_series (range() with a zero step).
ScoreSeriesRaise ==
    /\ \/ /\ winPc = "start_best"
          /\ ScoreSeriesRaises(<<window_sec>>, audioLen, sampleRate, stride_sec)
       \/ /\ winPc = "start_multi"
          /\ ScoreSeriesRaises(durations, audioLen, sampleRate, stride_sec)
    /\ winResult' = Raised("ValueError")
    /\ winPc' = "raised"
    /\ UNCHANGED <<winInputs, series, candidates, planVars, pickVars, detVars, serVars, pipeVars>>

NextWin == BestWindow \/ TopWindowsMulti \/ ScoreSeriesRaise

SpecWin == InitWin /\ [][NextWin]_vars

(***************************************************************************)
(* detect_people_segments, and the planner called on what it returns       *)
(***************************************************************************)
\* sample_frames = int(sample_interval * fps)
SampleFrames(interval, rate) == interval * rate

\* current_time = frame_idx / fps, in half seconds
CurrentTime(idx, rate) == HalfSec(idx) \div rate

\* What the HOG detector says of one frame: person_count is the number of
\* weights above confidence_threshold, confidence is max(weights), which is
\* above the threshold whenever person_count > 0 and is not read otherwise.
Detections ==
    {[person_count |-> 0, confidence |-> 0]} \cup
    { [person_count |-> n, confidence |-> c] : n \in 1..MaxPersons, c \in Confidences }

\* Mutant of StartSegment: the first sample's person_count is not recorded.
StartSegmentUncounted(t, det) == PersonSegment(t, t, 0, det.confidence)

\* current_segment = PersonSegment(start_sec=current_time, end_sec=current_time, ...)
StartSegment(t, det) == PersonSegment(t, t, det.person_count, det.confidence)

\* Mutant of ExtendSegment: the latest sample's values replace the running ones.
ExtendSegmentLatest(cur, t, det) ==
    PersonSegment(cur.start_sec, t, det.person_count, det.confidence)

\* The three assignments that extend the open segment.
ExtendSegment(cur, t, det) ==
    PersonSegment(cur.start_sec, t,
                  Max(cur.person_count, det.person_count),
                  Max(cur.confidence, det.confidence))

\* A sample without a person: the open segment, if any, is appended.
EndSegment(segs, cur) == IF cur # None THEN Append(segs, cur[1]) ELSE segs

\* Mutant of AddFinalSegment: a run still open when the loop ends is dropped.
DropFinalSegment(segs, cur) == segs

\* if current_segment is not None: segments.append(current_segment)
AddFinalSegment(segs, cur) == IF cur # None THEN Append(segs, cur[1]) ELSE segs

\* The video's duration as the callers compute it: frame count / fps.
VideoDuration(frames, rate) == HalfSec(frames) \div rate

InitDetect ==
    /\ detPc = "start"
    /\ videoOpens \in BOOLEAN
    /\ fps \in FrameRates
    /\ total_frames \in 0..MaxFrames
    /\ sample_interval \in 0..MaxInterval
    /\ frame_idx = 0 /\ samples = <<>> /\ segments = <<>>
    /\ current_segment = None /\ detResult = NoCall
    /\ PlanIdle /\ PickIdle /\ WinIdle /\ SerIdle /\ PipeIdle

detInputs == <<videoOpens, fps, total_frames, sample_interval>>

\* if not cap.isOpened(): return []
DetectNotOpened ==
    /\ detPc = "start" /\ ~videoOpens
    /\ detResult' = Returned(<<>>)
    /\ detPc' = "returned"
    /\ UNCHANGED <<detInputs, frame_idx, samples, segments, current_segment,
                   planVars, pickVars, winVars, serVars, pipeVars>>

\* range(0, total_frames, sample_frames) with sample_frames = 0 raises ValueError.
DetectZeroStep ==
    /\ detPc = "start" /\ videoOpens /\ SampleFrames(sample_interval, fps) = 0
    /\ detResult' = Raised("ValueError")
    /\ detPc' = "raised"
    /\ UNCHANGED <<detInputs, frame_idx, samples, segments, current_segment,
                   planVars, pickVars, winVars, serVars, pipeVars>>

\* The loop is entered at frame 0.
DetectBegin ==
    /\ detPc = "start" /\ videoOpens /\ SampleFrames(sample_interval, fps) # 0
    /\ detPc' = "loop"
    /\ UNCHANGED <<detInputs, frame_idx, samples, segments, current_segment,
                   detResult, planVars, pickVars, winVars, serVars, pipeVars>>

\* One iteration of the loop whose frame is read: the if/else on person_count.
DetectSample ==
    /\ detPc = "loop" /\ frame_idx < total_frames
    /\ \E det \in Detections :
        LET current_time == CurrentTime(frame_idx, fps) IN
        /\ samples' = Append(samples, [time |-> current_time,
                                       person_count |-> det.person_count,
                                       confidence |-> det.confidence])
        /\ IF det.person_count > 0
           THEN /\ current_segment' =
                      IF current_segment = None
                      THEN Some(StartSegment(current_time, det))
                      ELSE Some(ExtendSegment(current_segment[1], current_time, det))
                /\ segments' = segments
           ELSE /\ segments' = EndSegment(segments, current_segment)
                /\ current_segment' = None
    /\ frame_idx' = frame_idx + SampleFrames(sample_interval, fps)
    /\ UNCHANGED <<detPc, detInputs, detResult, planVars, pickVars, winVars, serVars, pipeVars>>

\* ret is False: break, then the code after the loop.
DetectReadFail ==
    /\ detPc = "loop" /\ frame_idx < total_frames
    /\ segments' = AddFinalSegment(segments, current_segment)
    /\ detResult' = Returned(AddFinalSegment(segments, current_segment))
    /\ detPc' = "returned"
    /\ UNCHANGED <<detInputs, frame_idx, samples, current_segment,
                   planVars, pickVars, winVars, serVars, pipeVars>>

\* The range is exhausted: the code after the loop.
DetectEnd ==
    /\ detPc = "loop" /\ frame_idx >= total_frames
    /\ segments' = AddFinalSegment(segments, current_segment)
    /\ detResult' = Returned(AddFinalSegment(segments, current_segment))
    /\ detPc' = "returned"
    /\ UNCHANGED <<detInputs, frame_idx, samples, current_segment,
                   planVars, pickVars, winVars, serVars, pipeVars>>

\* plan_rich_effects(path, duration, segments) on the detector's list, with
\* the duration of the same video.
PlanDetectedSegments ==
    /\ detPc = "returned"
    /\ duration' = VideoDuration(total_frames, fps)
    /\ segments_given' = detResult.value
    /\ person_segments' = SortByStart(detResult.value)
    /\ effects' = plan_rich_effects(VideoDuration(total_frames, fps),
                                    SortByStart(detResult.value))
    /\ planPc' = "done"
    /\ detPc' = "planned"
    /\ UNCHANGED <<detInputs, frame_idx, samples, segments, current_segment,
                   detResult, pickVars, winVars, serVars, pipeVars>>

NextDetect ==
    \/ DetectNotOpened \/ DetectZeroStep \/ DetectBegin \/ DetectSample
    \/ DetectReadFail \/ DetectEnd \/ PlanDetectedSegments

SpecDetect == InitDetect /\ [][NextDetect]_vars

(***************************************************************************)
(* _score_series: the raw audio series and the raw motion series           *)
(***************************************************************************)
\* The stride positions s of the audio loop whose chunk y[s:s+win] is not
\* empty, in order; or the ValueError of range() with hop = 0.
RmsStartsOf(len_y, sr, window, stride) ==
    LET hop == stride * sr
        win == window * sr
        r   == RangeFromZero(Max(1, len_y - win), hop)
        NonEmpty(st) == SliceLen(len_y, st, st + win) # 0
    IN IF r.kind = "raise" THEN r ELSE Returned(SelectSeq(r.value, NonEmpty))

\* Mutant of AudioSeries: no fallback entry for an empty list.
AudioSeriesNoFallback(energies) == energies

\* rms = np.array(rms) if rms else np.array([0.0])
AudioSeries(energies) == IF energies = <<>> THEN <<0>> ELSE energies

\* A mean is the pair <<sum, count>>; 0.0 is <<0, 1>>.
ZeroMean == <<0, 1>>

RECURSIVE SumOf(_)
SumOf(c) == IF c = <<>> THEN 0 ELSE Head(c) + SumOf(Tail(c))

\* float(np.mean(c)) of a non-empty chunk
MeanOf(c) == <<SumOf(c), Len(c)>>

\* np.linspace computes entry i as the double product i * (L / N) and sets the
\* last entry to L; astype(int) truncates.  These are the <<L, N, i>> with
\* L <= 40 and N <= 30 whose product is below the integer i * L / N, as
\* IEEE-754 arithmetic gives it: 11 * (30 / 22) = 14.999999999999998.
LinspaceBelowInteger == { <<30, 22, 11>>, <<30, 26, 13>> }

\* np.linspace(0, L, N + 1).astype(int)[i], for i in 0..N
LinspaceIdx(L, N, i) ==
    IF <<L, N, i>> \in LinspaceBelowInteger THEN (i * L) \div N - 1
    ELSE (i * L) \div N

\* np.zeros_like(rms)
ZerosLike(n) == [i \in 1..n |-> ZeroMean]

\* Mutant of MotionSeries: the frame differences are not re-binned.
MotionSeriesNoRebin(opens, diffs, num_windows) ==
    IF ~opens THEN ZerosLike(num_windows)
    ELSE IF diffs = <<>> THEN ZerosLike(num_windows)
    ELSE IF num_windows <= 1 THEN <<MeanOf(diffs)>>
    ELSE [i \in 1..Len(diffs) |-> MeanOf(<<diffs[i]>>)]

\* The motion series for num_windows = len(rms) audio windows.
MotionSeries(opens, diffs, num_windows) ==
    IF ~opens THEN ZerosLike(num_windows)
    ELSE IF diffs = <<>> THEN ZerosLike(num_windows)
    ELSE IF num_windows <= 1 THEN <<MeanOf(diffs)>>
    ELSE [i \in 1..num_windows |->
            LET c == SubSeq(diffs, LinspaceIdx(Len(diffs), num_windows, i - 1) + 1,
                                   LinspaceIdx(Len(diffs), num_windows, i))
            IN IF Len(c) # 0 THEN MeanOf(c) ELSE ZeroMean]

\* The frame differences a video yields: none when it cannot be opened.
FrameDiffLists(opens) ==
    IF opens THEN UNION { [1..k -> 0..MaxDiff] : k \in DiffLens } ELSE { <<>> }

InitSeries ==
    /\ serPc = "start"
    /\ winPc = "idle"
    /\ audioLen \in 0..MaxAudioLen
    /\ sampleRate \in 1..MaxSampleRate
    /\ window_sec \in WinSecs
    /\ stride_sec \in Strides
    /\ durations = <<>> /\ max_clips = 0 /\ min_gap_sec = 0
    /\ series = <<>> /\ candidates = <<>> /\ winResult = NoCall
    /\ capOpens \in BOOLEAN
    /\ frameDiffs \in FrameDiffLists(capOpens)
    /\ rmsStarts = <<>> /\ rms = <<>> /\ motion_series = <<>>
    /\ PlanIdle /\ PickIdle /\ DetIdle /\ PipeIdle

\* The call _score_series(path, window_sec, stride_sec) up to the two raw series.
ScoreSeries ==
    /\ serPc = "start"
    /\ LET r == RmsStartsOf(audioLen, sampleRate, window_sec, stride_sec) IN
       /\ r.kind = "return"
       /\ \E energies \in [1..Len(r.value) -> Energies] :
            /\ rmsStarts' = r.value
            /\ rms' = AudioSeries(energies)
            /\ motion_series' = MotionSeries(capOpens, frameDiffs,
                                             Len(AudioSeries(energies)))
    /\ serPc' = "done"
    /\ UNCHANGED <<capOpens, frameDiffs, planVars, pickVars, winVars, detVars, pipeVars>>

\* range() raises on hop = 0, before anything is built.
ScoreSeriesZeroHop ==
    /\ serPc = "start"
    /\ RmsStartsOf(audioLen, sampleRate, window_sec, stride_sec).kind = "raise"
    /\ serPc' = "raised"
    /\ UNCHANGED <<capOpens, frameDiffs, rmsStarts, rms, motion_series,
                   planVars, pickVars, winVars, detVars, pipeVars>>

NextSeries == ScoreSeries \/ ScoreSeriesZeroHop

SpecSeries == InitSeries /\ [][NextSeries]_vars

(***************************************************************************)
(* _score_series from the audio series on: the motion series of longer     *)
(* media                                                                   *)
(***************************************************************************)
\* Frame differences 1, 2, ..., L: every difference is told from the others.
RampDiffs(L) == [k \in 1..L |-> k]

\* The function has read n windows of silent audio (one sample per second,
\* window and stride of one second) and is about to build the motion series.
InitRebin ==
    /\ serPc = "audio_done"
    /\ winPc = "idle"
    /\ \E n \in 1..MaxRebinWindows :
        /\ audioLen = n + 1
        /\ rmsStarts = [i \in 1..n |-> i - 1]
        /\ rms = [i \in 1..n |-> 0]
    /\ sampleRate = 1 /\ window_sec = 1 /\ stride_sec = 1
    /\ durations = <<>> /\ max_clips = 0 /\ min_gap_sec = 0
    /\ series = <<>> /\ candidates = <<>> /\ winResult = NoCall
    /\ capOpens = TRUE
    /\ \E l \in 0..MaxRebinDiffs : frameDiffs = RampDiffs(l)
    /\ motion_series = <<>>
    /\ PlanIdle /\ PickIdle /\ DetIdle /\ PipeIdle

\* The motion block, lines 29-65, for the audio series at hand.
RebinMotion ==
    /\ serPc = "audio_done"
    /\ motion_series' = MotionSeries(capOpens, frameDiffs, Len(rms))
    /\ serPc' = "done"
    /\ UNCHANGED <<capOpens, frameDiffs, rmsStarts, rms,
                   planVars, pickVars, winVars, detVars, pipeVars>>

NextRebin == RebinMotion

SpecRebin == InitRebin /\ [][NextRebin]_vars

(***************************************************************************)
(* The whole engine: any one call.                                         *)
(***************************************************************************)
(***************************************************************************)
(* run_pipeline_multi: the windows of top_windows_multi, cut into clips.   *)
(* Times are in tenths of a second.                                        *)
(***************************************************************************)
Tenths(n) == 10 * n

\* max(lo, min(hi, x))
Clamp(x, lo, hi) == Max(lo, Min(hi, x))

\* pick_idea_endpoint(transcript, silences, start_hint, min_dur, max_dur), in seconds
IdeaEndpoint(tr, sils, hint, mn, mx) ==
    Decide(CandTranscript(tr, hint + mn, hint + mx),
           CandSilence(sils, hint + mn, hint + mx), hint + mx)

\* head = max(0.0, min(3.0, float(head_pad_sec)))
HeadPad(h) == Clamp(h, 0, Tenths(3))

\* out_start = max(0.0, start - head)
OutStart(start, h) == Max(0, Tenths(start) - HeadPad(h))

\* The idea_end branch: the padded endpoint, held to the media, then the length.
IdeaDuration(start, h, tl, md, tr, sils, mn, mx) ==
    LET padded == Tenths(IdeaEndpoint(tr, sils, start, mn, mx)) + Clamp(tl, 0, Tenths(3))
        end == IF md # 0 /\ padded > md THEN md ELSE padded
    IN Max(1, end - Tenths(start) + HeadPad(h))

\* if media_dur: duration = min(duration, max(0.1, media_dur - out_start))
HoldToMedia(d, out_start, md) ==
    IF md # 0 THEN Min(d, Max(1, md - out_start)) ELSE d

\* One turn of the loop: the arguments of cut_segment for the window w.
CutOf(w, ie, h, tl, md, tr, sils, mn, mx) ==
    LET d == IF ie THEN IdeaDuration(w.start, h, tl, md, tr, sils, mn, mx)
             ELSE Tenths(w.dur) + HeadPad(h)
    IN <<OutStart(w.start, h), HoldToMedia(d, OutStart(w.start, h), md)>>

\* ---- the inputs of a run -------------------------------------------------
PipeAudioLens == {3, 4}
PipeDurations == {1, 2}
PipeClips == {3}
PipePads == {0, 15, 40}
PipeTranscripts ==
    {None} \cup { Some(<<[end |-> Some(e), text |-> Some(<<"a", ".">>)]>>) : e \in {1, 3} }
PipeSilences == {<<>>} \cup { << <<s, s + 1>> >> : s \in {2} }
PipeMinDurs == {1}
PipeMaxDurs == {2}

\* The run has reached the call of top_windows_multi: the media is probed, and
\* the transcript and the silences are computed when idea_end is set (both
\* stay empty otherwise, and a failure leaves None and []).  The scorer gets
\* durations, stride_sec and max_clips; min_gap_sec keeps its default 1.0.
InitPipe ==
    /\ pipePc = "start"
    /\ winPc = "start_multi"
    /\ audioLen \in PipeAudioLens
    /\ sampleRate = 1
    /\ window_sec = 0
    /\ stride_sec = 1
    /\ durations \in UNION { [1..k -> PipeDurations] : k \in WinLens }
    /\ max_clips \in PipeClips
    /\ min_gap_sec = 1
    /\ series = <<>> /\ candidates = <<>> /\ winResult = NoCall
    /\ idea_end \in BOOLEAN
    /\ head_pad_sec \in PipePads
    /\ tail_pad_sec \in PipePads
    /\ media_dur \in {0, Tenths(audioLen)}
    /\ pickPc = "idle" /\ start_hint = 0
    /\ cand_transcript = None /\ cand_silence = None /\ pickResult = NoCall
    /\ IF idea_end
       THEN /\ transcript \in PipeTranscripts
            /\ silences \in PipeSilences
       ELSE transcript = None /\ silences = <<>>
    /\ min_dur \in PipeMinDurs
    /\ max_dur \in PipeMaxDurs
    /\ cuts = <<>>
    /\ PlanIdle /\ DetIdle /\ SerIdle

\* The loop over the windows: one cut_segment call per window, in order.
CutClips ==
    /\ pipePc = "start"
    /\ winPc = "multi_done"
    /\ cuts' = [i \in 1..Len(winResult.value) |->
                  CutOf(winResult.value[i], idea_end, head_pad_sec, tail_pad_sec,
                        media_dur, transcript, silences, min_dur, max_dur)]
    /\ pipePc' = "done"
    /\ UNCHANGED <<idea_end, head_pad_sec, tail_pad_sec, media_dur,
                   planVars, pickVars, winVars, detVars, serVars>>

NextPipe == TopWindowsMulti \/ CutClips

SpecPipe == InitPipe /\ [][NextPipe]_vars

Init == InitPlan \/ InitPick \/ InitWin \/ InitDetect \/ InitSeries \/ InitRebin \/ InitPipe

Next == NextPlan \/ NextPick \/ NextWin \/ NextDetect \/ NextSeries \/ NextRebin \/ NextPipe

Spec == Init /\ [][Next]_vars

(***************************************************************************)
(* Properties of plan_rich_effects (SpecPlan).                             *)
(***************************************************************************)
\* A plan is sorted by start, starts at 0, is contiguous and ends at dur.
PlanCovers(effs, dur) ==
    IF effs = <<>> THEN dur = 0
    ELSE /\ effs[1].start_sec = 0
         /\ Last(effs).end_sec = dur
         /\ \A i \in 1..(Len(effs) - 1) :
              /\ effs[i].start_sec <= effs[i + 1].start_sec
              /\ effs[i + 1].start_sec = effs[i].end_sec

\* C1: for every duration >= 0 and every valid list of person segments, in
\* any order, the returned plan is sorted by start, begins at 0, each segment
\* starts where the previous one ends, and the last one ends at duration.
C1_CoverageInvariant ==
    (planPc = "done" /\ ValidSegmentList(segments_given, duration))
        => PlanCovers(effects, duration)

\* C10: with no person segments and a duration > 0 the plan is exactly one
\* full_frame segment from 0 to duration.
C10_EmptyListSingleFullFrame ==
    (planPc = "done" /\ segments_given = <<>> /\ duration > 0)
        => /\ Len(effects) = 1
           /\ effects[1].effect_type = "full_frame"
           /\ effects[1].start_sec = 0
           /\ effects[1].end_sec = duration

C10_Witness ==
    /\ planPc = "done" /\ segments_given = <<>> /\ duration = HalfSec(1)
    /\ Len(effects) = 1

(***************************************************************************)
(* Properties of pick_idea_endpoint (SpecPick).                            *)
(***************************************************************************)
MinEnd == start_hint + min_dur
MaxEnd == start_hint + max_dur
InAcceptanceWindow(t) == MinEnd <= t /\ t <= MaxEnd

\* C2: with min_dur <= max_dur the call returns a value in
\* [start_hint + min_dur, start_hint + max_dur].
C2_BoundaryContainment ==
    (pickPc = "done" /\ min_dur <= max_dur)
        => /\ pickResult.kind = "return"
           /\ start_hint + min_dur <= pickResult.value
           /\ pickResult.value <= start_hint + max_dur

\* A silence above the window is listed first, and a candidate is returned.
C2_Witness ==
    /\ pickPc = "done" /\ min_dur < max_dur
    /\ Len(silences) = 2 /\ silences[1][1] > MaxEnd
    /\ cand_silence # None /\ cand_transcript # None
    /\ pickResult.value < MaxEnd

\* The candidates that exist, read off the arguments.
TranscriptCandidateExists ==
    /\ transcript # None
    /\ \E i \in 1..Len(transcript[1]) :
         transcript[1][i].end # None /\ InAcceptanceWindow(transcript[1][i].end[1])

SilenceCandidateExists ==
    \E i \in 1..Len(silences) : InAcceptanceWindow(silences[i][1])

EndsSentence(text) ==
    /\ text # None
    /\ \E k \in 1..Len(text[1]) :
         /\ text[1][k] \in {".", "!", "?"}
         /\ \A m \in (k + 1)..Len(text[1]) : text[1][m] = " "

SegInWindow(seg) == seg.end # None /\ InAcceptanceWindow(seg.end[1])

\* The first index of segs that satisfies P, 0 when none does.
FirstIndex(segs, P(_)) ==
    IF \E i \in 1..Len(segs) : P(segs[i])
    THEN CHOOSE i \in 1..Len(segs) : P(segs[i]) /\ \A j \in 1..(i - 1) : ~P(segs[j])
    ELSE 0

\* C6: the transcript candidate is the end of the first in-window segment
\* whose trimmed text ends a sentence, also when an unpunctuated in-window
\* segment precedes it; with no such segment it is the end of the first
\* in-window segment.
C6_TranscriptCandidate ==
    (pickPc = "done" /\ transcript # None) =>
        LET segs == transcript[1]
            PunctInWindow(seg) == SegInWindow(seg) /\ EndsSentence(seg.text)
            p == FirstIndex(segs, PunctInWindow)
            f == FirstIndex(segs, SegInWindow)
        IN cand_transcript =
              IF p # 0 THEN Some(segs[p].end[1])
              ELSE IF f # 0 THEN Some(segs[f].end[1])
              ELSE None

\* An unpunctuated in-window segment precedes the punctuated one chosen.
C6_Witness ==
    /\ pickPc = "done" /\ transcript # None /\ Len(transcript[1]) = 2
    /\ SegInWindow(transcript[1][1]) /\ ~EndsSentence(transcript[1][1].text)
    /\ SegInWindow(transcript[1][2]) /\ EndsSentence(transcript[1][2].text)
    /\ transcript[1][1].end # transcript[1][2].end
    /\ cand_transcript = transcript[1][2].end

\* C7: the silence candidate is the start of the first interval, in list
\* order, that starts in the window, also when a later interval starts
\* earlier in the window.
C7_SilenceCandidate ==
    pickPc = "done" =>
        LET StartsInWindow(iv) == InAcceptanceWindow(iv[1])
            f == FirstIndex(silences, StartsInWindow)
        IN cand_silence = IF f # 0 THEN Some(silences[f][1]) ELSE None

\* The list is unsorted: the later interval starts earlier, in the window.
C7_Witness ==
    /\ pickPc = "done" /\ Len(silences) = 2
    /\ InAcceptanceWindow(silences[1][1]) /\ InAcceptanceWindow(silences[2][1])
    /\ silences[2][1] < silences[1][1]
    /\ cand_silence = Some(silences[1][1])

\* C8: a call with min_dur > max_dur fails with an error and returns no
\* endpoint.
C8_FailFastOnMinAboveMax ==
    (pickPc = "done" /\ min_dur > max_dur) => pickResult.kind = "raise"

(***************************************************************************)
(* Properties of best_window and top_windows_multi (SpecWin).              *)
(***************************************************************************)
\* C3: any two distinct returned windows are min_gap_sec apart.
C3_NonOverlap ==
    winPc = "multi_done" =>
        \A i, j \in 1..Len(winResult.value) :
            i # j =>
              LET a == winResult.value[i]
                  b == winResult.value[j]
              IN \/ a.start + a.dur + min_gap_sec <= b.start
                 \/ b.start + b.dur + min_gap_sec <= a.start

\* Two windows are returned, exactly min_gap_sec apart, after a candidate
\* between them in the sorted pool was rejected for overlapping.
C3_Witness ==
    /\ winPc = "multi_done" /\ min_gap_sec > 0
    /\ stride_sec > 0 /\ \A i \in 1..Len(durations) : durations[i] > 0
    /\ Len(winResult.value) = 2
    /\ winResult.value[1].start + winResult.value[1].dur + min_gap_sec
          = winResult.value[2].start
    /\ \E k \in 1..Len(candidates) :
         /\ \A i \in 1..2 : winResult.value[i] # candidates[k]
         /\ \E m \in (k + 1)..Len(candidates) :
              \E i \in 1..2 : winResult.value[i] = candidates[m]

\* C4: best_window returns start_sec = i * stride_sec and score = series[i]
\* for the lowest index i (from 0) at which the series is maximal.
C4_ArgmaxStability ==
    winPc = "best_done" =>
        LET s == series[1]
            i == CHOOSE k \in 1..Len(s) :
                    /\ \A j \in 1..Len(s) : s[j] <= s[k]
                    /\ \A j \in 1..(k - 1) : s[j] < s[k]
        IN winResult.value = << (i - 1) * stride_sec, s[i] >>

\* The maximum is attained twice, and not at index 0.
C4_Witness ==
    /\ winPc = "best_done" /\ Len(series[1]) >= 3
    /\ series[1][1] < series[1][2] /\ series[1][2] = series[1][3]
    /\ \A j \in 1..Len(series[1]) : series[1][j] <= series[1][2]
    /\ winResult.value[1] = stride_sec /\ stride_sec > 0

\* C9: a call of the window scorer with window_sec <= 0 (a duration <= 0)
\* or stride_sec <= 0 fails with an error and returns no result.
InvalidScorerParams ==
    \/ stride_sec <= 0
    \/ durations = <<>> /\ window_sec <= 0
    \/ \E i \in 1..Len(durations) : durations[i] <= 0

C9_FailFastOnNonPositive ==
    (winPc \in {"best_done", "multi_done", "raised"} /\ InvalidScorerParams)
        => winResult.kind = "raise"

\* The number of places of seq that hold w.
CountIn(seq, w) == Cardinality({ i \in 1..Len(seq) : seq[i] = w })

\* Two windows closer than min_gap_sec: neither ends min_gap_sec before the other starts.
TooClose(a, b) ==
    ~(\/ a.start + a.dur + min_gap_sec <= b.start
      \/ b.start + b.dur + min_gap_sec <= a.start)

\* The places of the sorted pool that the result holds: of the places that
\* hold equal windows, as many of the first ones as the result has copies.
AcceptedPlaces ==
    { k \in 1..Len(candidates) :
        Cardinality({ j \in 1..(k - 1) : candidates[j] = candidates[k] })
            < CountIn(winResult.value, candidates[k]) }

\* k is accepted if and only if fewer than max_clips places below k are
\* accepted and candidates[k] is not too close to any accepted one below k.
AcceptIffRule(A) ==
    \A k \in 1..Len(candidates) :
        (k \in A) <=>
           /\ Cardinality({ j \in A : j < k }) < max_clips
           /\ \A j \in A : j < k => ~TooClose(candidates[k], candidates[j])

\* C11: the pool is walked in score-descending order and a candidate is
\* accepted if and only if fewer than max_clips are accepted so far and it
\* overlaps (with the min_gap_sec buffer) no accepted candidate; the result
\* holds exactly the accepted candidates, at most max_clips of them.
C11_GreedyAcceptReject ==
    winPc = "multi_done" =>
        /\ \A i \in 1..(Len(candidates) - 1) :
              candidates[i].score >= candidates[i + 1].score
        /\ \A d \in 1..Len(durations) : \A i \in 1..Len(series[d]) :
              LET w == [start |-> (i - 1) * stride_sec, dur |-> durations[d],
                        score |-> series[d][i]]
              IN CountIn(candidates, w) =
                   Cardinality({ p \in { <<e, j>> : e \in 1..Len(durations), j \in 1..MaxAudioLen } :
                       /\ p[2] <= Len(series[p[1]])
                       /\ (p[2] - 1) * stride_sec = w.start
                       /\ durations[p[1]] = w.dur
                       /\ series[p[1]][p[2]] = w.score })
        /\ LET A == AcceptedPlaces IN
              /\ Len(winResult.value) = Cardinality(A)
              /\ \A k \in 1..Len(candidates) :
                    CountIn(winResult.value, candidates[k]) =
                       Cardinality({ j \in A : candidates[j] = candidates[k] })
              /\ AcceptIffRule(A)
        /\ Len(winResult.value) <= max_clips

\* A candidate is rejected for overlapping the first accepted window only, a
\* later one is accepted, and the cap then shuts out a candidate that overlaps
\* nothing.
C11_Witness ==
    /\ winPc = "multi_done" /\ max_clips = 2 /\ Len(winResult.value) = 2
    /\ Len(candidates) >= 4
    /\ \A d \in 1..Len(durations) : durations[d] > 0
    /\ \E k \in 2..Len(candidates) :
         /\ CountIn(winResult.value, candidates[k]) = 0
         /\ TooClose(candidates[k], candidates[1])
         /\ \E m \in (k + 1)..Len(candidates) :
              CountIn(winResult.value, candidates[m]) > 0
    /\ \E k \in 1..Len(candidates) :
         /\ CountIn(winResult.value, candidates[k]) = 0
         /\ \A i \in 1..2 : ~TooClose(candidates[k], winResult.value[i])

\* C12: the returned list is ordered by non-decreasing start.
C12_ResultSortedByStart ==
    winPc = "multi_done" =>
        \A i \in 1..(Len(winResult.value) - 1) :
            winResult.value[i].start <= winResult.value[i + 1].start

\* The window accepted first (the better score) starts later.
C12_Witness ==
    /\ winPc = "multi_done" /\ Len(winResult.value) = 2
    /\ winResult.value[1].start < winResult.value[2].start
    /\ winResult.value[1].score < winResult.value[2].score
    /\ candidates[1] = winResult.value[2]

\* C13: a pool of two mutually overlapping candidates and max_clips >= 1:
\* exactly one is returned, the higher-scoring one, or with equal scores the
\* first one pooled (the first duration given, the lowest start index).
C13_TwoOverlappingCandidates ==
    (/\ winPc = "multi_done" /\ max_clips >= 1 /\ Len(candidates) = 2
     /\ TooClose(candidates[1], candidates[2]))
        => LET firstPooled == [start |-> 0, dur |-> durations[1],
                               score |-> series[1][1]]
               other == IF candidates[1] = firstPooled THEN candidates[2]
                        ELSE candidates[1]
           IN /\ Len(winResult.value) = 1
              /\ winResult.value[1] =
                    IF other.score > firstPooled.score THEN other ELSE firstPooled

\* Durations [2, 1]: one window each, equal scores, and the first pooled is kept.
C13_Witness ==
    /\ winPc = "multi_done" /\ max_clips >= 1 /\ Len(candidates) = 2
    /\ durations = <<2, 1>> /\ Len(series[1]) = 1 /\ Len(series[2]) = 1
    /\ candidates[1].score = candidates[2].score
    /\ TooClose(candidates[1], candidates[2])
    /\ winResult.value = << [start |-> 0, dur |-> 2, score |-> series[1][1]] >>

IsFullFrame(e) == e.effect_type = "full_frame"
IsSegmentEffect(e) == e.effect_type # "full_frame"

\* The effects the rule table gives one person segment; times in half
\* seconds (8.0 s = 16, 5.0 s = 10), scales in tenths.
RuleTableEffects(seg) ==
    LET pc == seg.person_count
        s == seg.start_sec
        e == seg.end_sec
        d == e - s
        mid == s + d \div 2
    IN CASE pc >= 2 /\ d > 16 ->
              << [start_sec |-> s, end_sec |-> mid, effect_type |-> "zoom_in",
                  params |-> [target_scale |-> 15, focus |-> "left"]],
                 [start_sec |-> mid, end_sec |-> e, effect_type |-> "split_screen",
                  params |-> [orientation |-> "horizontal"]] >>
         [] pc >= 2 /\ d <= 16 ->
              << [start_sec |-> s, end_sec |-> e, effect_type |-> "zoom_in",
                  params |-> [target_scale |-> 13, focus |-> "center"]] >>
         [] pc = 1 /\ d > 10 ->
              << [start_sec |-> s, end_sec |-> mid, effect_type |-> "zoom_in",
                  params |-> [target_scale |-> 14, focus |-> "center"]],
                 [start_sec |-> mid, end_sec |-> e, effect_type |-> "pan_left",
                  params |-> [zoom_scale |-> 12]] >>
         [] OTHER ->
              << [start_sec |-> s, end_sec |-> e, effect_type |-> "zoom_in",
                  params |-> [target_scale |-> 12, focus |-> "center"]] >>

RECURSIVE RuleTableOfAll(_)
RuleTableOfAll(segs) ==
    IF segs = <<>> THEN <<>>
    ELSE RuleTableEffects(Head(segs)) \o RuleTableOfAll(Tail(segs))

\* C16: the effects that are not full_frame fillers are, segment by segment
\* in start order, the ones of the rule table, with strict thresholds at
\* 8.0 s and 5.0 s and the split at the mid point.
C16_SegmentEffectRules ==
    planPc = "done" =>
        SelectSeq(effects, IsSegmentEffect) = RuleTableOfAll(person_segments)

\* A two-person segment of exactly 8.0 s gets the single zoom at 1.3, and a
\* single-person segment after it gets its own effect.
C16_Witness ==
    /\ planPc = "done" /\ Len(person_segments) = 2
    /\ person_segments[1].person_count = 2
    /\ person_segments[1].end_sec - person_segments[1].start_sec = 16
    /\ person_segments[2].person_count = 1
    /\ Len(SelectSeq(effects, IsSegmentEffect)) = 2
    /\ effects[1].params = [target_scale |-> 13, focus |-> "center"]

\* The fillers the gap rule gives: before segment i when its start is more
\* than 1.0 s (2 half seconds) after the end of segment i - 1 (after 0 for
\* the first), and a trailing one when the last end is before the duration.
GapRuleFillers(segs, dur) ==
    LET prevEnd(i) == IF i = 1 THEN 0 ELSE segs[i - 1].end_sec
        lastEnd == IF segs = <<>> THEN 0 ELSE segs[Len(segs)].end_sec
        before == { i \in 1..Len(segs) : segs[i].start_sec > prevEnd(i) + 2 }
        F(i) == [start_sec |-> prevEnd(i), end_sec |-> segs[i].start_sec,
                 effect_type |-> "full_frame", params |-> [transition |-> "fade"]]
        T == [start_sec |-> lastEnd, end_sec |-> dur,
              effect_type |-> "full_frame", params |-> [transition |-> "fade"]]
    IN [before |-> { F(i) : i \in before },
        nBefore |-> Cardinality(before),
        trailing |-> IF lastEnd < dur THEN <<T>> ELSE <<>>]

\* C17: a full_frame filler precedes a segment if and only if the segment
\* starts more than 1.0 s after the current time (the end of the previous
\* segment, 0 at first), and a trailing full_frame from the current time to
\* the duration is there if and only if the current time is below the duration.
C17_FillerRules ==
    planPc = "done" =>
        LET fillers == SelectSeq(effects, IsFullFrame)
            rule == GapRuleFillers(person_segments, duration)
            n == Len(fillers) - Len(rule.trailing)
        IN /\ n = rule.nBefore
           /\ { fillers[i] : i \in 1..n } = rule.before
           /\ SubSeq(fillers, n + 1, Len(fillers)) = rule.trailing
           /\ rule.trailing # <<>> => effects[Len(effects)] = rule.trailing[1]
           /\ \A k \in 1..(Len(effects) - 1) :
                 IsFullFrame(effects[k]) =>
                    /\ IsSegmentEffect(effects[k + 1])
                    /\ effects[k + 1].start_sec = effects[k].end_sec

\* A first segment exactly 1.0 s after 0 gets no filler, the second one 2.0 s
\* after the first gets one, and the plan ends with the trailing filler.
C17_Witness ==
    /\ planPc = "done" /\ Len(person_segments) = 2
    /\ person_segments[1].start_sec = 2
    /\ person_segments[2].start_sec = person_segments[1].end_sec + 4
    /\ person_segments[2].end_sec < duration
    /\ IsSegmentEffect(effects[1])
    /\ Len(SelectSeq(effects, IsFullFrame)) = 2

(***************************************************************************)
(* Properties of detect_people_segments (SpecDetect).                      *)
(***************************************************************************)
\* The maximal runs <<a, b>> of consecutive samples with person_count > 0.
PresenceRuns ==
    { r \in (1..Len(samples)) \X (1..Len(samples)) :
        /\ r[1] <= r[2]
        /\ \A i \in r[1]..r[2] : samples[i].person_count > 0
        /\ r[1] = 1 \/ samples[r[1] - 1].person_count = 0
        /\ r[2] = Len(samples) \/ samples[r[2] + 1].person_count = 0 }

\* The k-th of the runs in sample order.
KthRun(runs, k) ==
    CHOOSE r \in runs : Cardinality({ q \in runs : q[1] < r[1] }) = k - 1

\* C14: the list returned holds one PersonSegment per maximal run of samples
\* with person_count > 0, in sample order, from the time of the run's first
\* sample to the time of its last; a run open when sampling ends or a frame
\* read fails is in the list too.
C14_OneSegmentPerRun ==
    detPc \in {"returned", "planned"} =>
        LET runs == PresenceRuns IN
        /\ Len(detResult.value) = Cardinality(runs)
        /\ \A k \in 1..Len(detResult.value) :
              LET run == KthRun(runs, k) IN
              /\ detResult.value[k].start_sec = samples[run[1]].time
              /\ detResult.value[k].end_sec = samples[run[2]].time

\* A run, one sample without a person, a second run, then a failed read
\* while the second run is open.
C14_Witness ==
    /\ detPc = "returned" /\ frame_idx < total_frames
    /\ Len(samples) = 4
    /\ samples[1].person_count > 0 /\ samples[2].person_count = 0
    /\ samples[3].person_count > 0 /\ samples[4].person_count > 0
    /\ Len(detResult.value) = 2
    /\ detResult.value[2].start_sec < detResult.value[2].end_sec

\* The values of a returned segment are the maxima over its run.
SegmentsHoldRunMaxima ==
    detPc \in {"returned", "planned"} =>
        LET runs == PresenceRuns IN
        \A k \in 1..Cardinality(runs) :
            k <= Len(detResult.value) =>
                LET kth == KthRun(runs, k)
                    run == kth[1]..kth[2]
                    seg == detResult.value[k]
                IN /\ \A i \in run : samples[i].person_count <= seg.person_count
                   /\ \E i \in run : samples[i].person_count = seg.person_count
                   /\ \A i \in run : samples[i].confidence <= seg.confidence
                   /\ \E i \in run : samples[i].confidence = seg.confidence

\* From one sample to the next of an open run neither value decreases.
OpenRunNeverDecreases ==
    (current_segment # None /\ current_segment' # None) =>
        /\ current_segment'[1].person_count >= current_segment[1].person_count
        /\ current_segment'[1].confidence >= current_segment[1].confidence

\* C15: person_count and confidence of every returned segment are the maxima
\* over the samples of its run, and while a run is open neither decreases
\* from one sample to the next.
C15_RunningMaxima == []SegmentsHoldRunMaxima /\ [][OpenRunNeverDecreases]_vars

\* A run whose maxima come from different samples, neither of them the last.
C15_Witness ==
    /\ detPc = "returned" /\ Len(samples) = 3 /\ Len(detResult.value) = 1
    /\ samples[1].person_count = 2 /\ samples[1].confidence = 1
    /\ samples[2].person_count = 1 /\ samples[2].confidence = 2
    /\ samples[3].person_count = 1 /\ samples[3].confidence = 1
    /\ detResult.value[1].person_count = 2 /\ detResult.value[1].confidence = 2

\* C18: the plan built from the detector's output and the video's duration
\* is ordered, gapless and covers [0, duration].
C18_DetectThenPlanCovers ==
    detPc = "planned" => PlanCovers(effects, duration)

(***************************************************************************)
(* Properties of the raw series of _score_series (SpecSeries).             *)
(***************************************************************************)
NoSeriesEmpty == serPc = "done" => (rms # <<>> /\ motion_series # <<>>)

ZeroAudioWindows == serPc = "done" /\ rmsStarts = <<>>

\* C19 as stated: with zero audio windows both raw series are the single
\* entry 0, whether or not the video can be decoded, and no series is empty.
C19_BothSeriesSingleZero ==
    /\ ZeroAudioWindows =>
          /\ rms = <<0>>
          /\ Len(motion_series) = 1 /\ motion_series[1][1] = 0
    /\ NoSeriesEmpty

RECURSIVE TotalOf(_)
TotalOf(c) == IF c = <<>> THEN 0 ELSE c[1] + TotalOf(SubSeq(c, 2, Len(c)))

\* C19, amended: with zero audio windows the raw audio series is the single
\* entry 0 and the raw motion series is a single entry, 0 when the video
\* cannot be opened or yields no frame difference and the mean of all frame
\* differences otherwise; no series is ever empty.
C19_SingleEntrySeries ==
    /\ ZeroAudioWindows =>
          /\ rms = <<0>>
          /\ Len(motion_series) = 1
          /\ IF capOpens /\ frameDiffs # <<>>
             THEN motion_series[1][1] * Len(frameDiffs) =
                     TotalOf(frameDiffs) * motion_series[1][2]
             ELSE motion_series[1][1] = 0
    /\ NoSeriesEmpty

\* No audio sample at all, a video with frame differences that are not all 0.
C19_Witness ==
    /\ ZeroAudioWindows /\ audioLen = 0
    /\ capOpens /\ Len(frameDiffs) = 2 /\ TotalOf(frameDiffs) = 1
    /\ rms = <<0>> /\ motion_series = << <<1, 2>> >>

\* C20: in every branch the motion series is built without raising (the only
\* raise is range() with hop = 0 in the audio loop) and has as many entries
\* as the audio series; when the video cannot be opened they are all 0.
C20_MotionSeriesLength ==
    /\ serPc = "raised" => stride_sec * sampleRate = 0
    /\ serPc = "done" =>
          /\ Len(motion_series) = Len(rms)
          /\ ~capOpens => \A i \in 1..Len(motion_series) : motion_series[i][1] = 0

\* Three audio windows and two frame differences: one bucket is empty.
C20_Witness ==
    /\ serPc = "done" /\ capOpens
    /\ Len(rms) = 3 /\ Len(frameDiffs) = 2 /\ TotalOf(frameDiffs) = 2
    /\ Len(motion_series) = 3
    /\ motion_series[1] = <<0, 1>> /\ motion_series[2] = <<1, 1>>

(***************************************************************************)
(* Further properties of pick_idea_endpoint (SpecPick).                   *)
(***************************************************************************)
\* C21: the sentence end is preferred over silence: a transcript candidate,
\* when there is one, is the value returned; a silence start is returned
\* only when there is no transcript candidate; start_hint + max_dur only
\* when there is neither.
C21_TranscriptPreferred ==
    (pickPc = "done" /\ pickResult.kind = "return") =>
        /\ TranscriptCandidateExists => pickResult.value = cand_transcript[1]
        /\ (~TranscriptCandidateExists /\ SilenceCandidateExists) =>
              pickResult.value = cand_silence[1]
        /\ (~TranscriptCandidateExists /\ ~SilenceCandidateExists) =>
              pickResult.value = start_hint + max_dur

(***************************************************************************)
(* Further properties of plan_rich_effects (SpecPlan).                     *)
(***************************************************************************)
\* C22: after the call the caller's list holds the same segments in the
\* same order as before the call.
C22_ArgumentUnchanged ==
    planPc = "done" => person_segments = segments_given

(***************************************************************************)
(* Further properties of the raw series of _score_series (SpecSeries).     *)
(***************************************************************************)
\* The stride positions at which a full window of win samples fits.
FullWindowPositions(L, win, hop) ==
    { st \in 0..L : st % hop = 0 /\ st + win <= L }

\* C23: with hop > 0 the audio series has one entry for exactly the stride
\* positions at which a full window fits: a chunk that runs out of samples
\* is skipped and no full chunk at a stride position is left out.
C23_FullWindowsOnly ==
    LET hop == stride_sec * sampleRate
        win == window_sec * sampleRate
    IN (serPc = "done" /\ hop > 0 /\ win > 0) =>
          /\ { rmsStarts[i] : i \in 1..Len(rmsStarts) }
                = FullWindowPositions(audioLen, win, hop)
          /\ Len(rmsStarts) = Cardinality(FullWindowPositions(audioLen, win, hop))

(***************************************************************************)
(* Properties of the motion re-binning (SpecRebin).                        *)
(***************************************************************************)
\* The sum of seq[lo + 1 .. hi].
RangeSum(seq, lo, hi) ==
    LET S[k \in lo..hi] == IF k = lo THEN 0 ELSE S[k - 1] + seq[k] IN S[hi]

\* C24: for N >= 2 windows and L >= 1 frame differences bucket i (from 0)
\* is the mean of the differences with index in [floor(i*L/N),
\* floor((i+1)*L/N)), and 0 when that range is empty; the ranges are in
\* order, disjoint and cover all L differences.
C24_ProportionalBuckets ==
    LET L == Len(frameDiffs)
        N == Len(rms)
        lo(i) == (i * L) \div N
        hi(i) == ((i + 1) * L) \div N
    IN (serPc = "done" /\ capOpens /\ N >= 2 /\ L >= 1) =>
          /\ Len(motion_series) = N
          /\ \A i \in 0..(N - 1) :
                motion_series[i + 1] =
                    IF lo(i) = hi(i) THEN <<0, 1>>
                    ELSE <<RangeSum(frameDiffs, lo(i), hi(i)), hi(i) - lo(i)>>

(***************************************************************************)
(* Further properties of best_window and top_windows_multi (SpecWin).      *)
(***************************************************************************)
\* C25: with a non-empty pool and max_clips >= 1 the result holds a
\* candidate whose score is the maximum of the whole pool, and the first
\* candidate in sorted order is in the result.
C25_BestCandidateKept ==
    (winPc = "multi_done" /\ max_clips >= 1 /\ candidates # <<>>) =>
        /\ \E r \in 1..Len(winResult.value) :
              \A d \in 1..Len(series) : \A i \in 1..Len(series[d]) :
                  winResult.value[r].score >= series[d][i]
        /\ CountIn(winResult.value, candidates[1]) > 0

\* The result is one window, and two candidates that are far enough from
\* each other for max_clips >= 2 have a higher total score.
C25_Witness ==
    /\ winPc = "multi_done" /\ max_clips >= 2 /\ Len(winResult.value) = 1
    /\ \A d \in 1..Len(durations) : durations[d] > 0
    /\ \E j, k \in 1..Len(candidates) :
         /\ j # k /\ ~TooClose(candidates[j], candidates[k])
         /\ candidates[j].score + candidates[k].score > winResult.value[1].score

\* C26: when the result has fewer than max_clips windows, every pooled
\* candidate that is not in it overlaps (with the min_gap_sec buffer) a
\* returned window whose score is at least its own.
C26_ResultMaximal ==
    (winPc = "multi_done" /\ Len(winResult.value) < max_clips) =>
        \A k \in 1..Len(candidates) :
            CountIn(winResult.value, candidates[k]) = 0 =>
                \E r \in 1..Len(winResult.value) :
                    /\ TooClose(candidates[k], winResult.value[r])
                    /\ winResult.value[r].score >= candidates[k].score

\* Two windows are returned where three were allowed: a candidate was
\* rejected and a later, worse one was still accepted.
C26_Witness ==
    /\ winPc = "multi_done" /\ max_clips = 3 /\ Len(winResult.value) = 2
    /\ \A d \in 1..Len(durations) : durations[d] > 0
    /\ \E k \in 2..Len(candidates) :
         /\ CountIn(winResult.value, candidates[k]) = 0
         /\ \E m \in (k + 1)..Len(candidates) :
              /\ CountIn(winResult.value, candidates[m]) > 0
              /\ candidates[m].score < candidates[k].score

\* C29: every returned window lies inside the analysed audio of
\* audioLen / sampleRate seconds: start >= 0 and start + duration <= length.
C29_WindowsInsideAudio ==
    /\ (winPc = "multi_done" /\ ~InvalidScorerParams) =>
          \A r \in 1..Len(winResult.value) :
              /\ winResult.value[r].start >= 0
              /\ (winResult.value[r].start + winResult.value[r].dur) * sampleRate
                    <= audioLen
    /\ (winPc = "best_done" /\ ~InvalidScorerParams) =>
          /\ winResult.value[1] >= 0
          /\ (winResult.value[1] + window_sec) * sampleRate <= audioLen

(***************************************************************************)
(* Further properties of detect_people_segments and the plan built from    *)
(* its output (SpecDetect).                                                *)
(***************************************************************************)
\* C27: every effect of a plan built from the detector's output has
\* end_sec > start_sec.
C27_PositiveEffectDurations ==
    detPc = "planned" =>
        \A i \in 1..Len(effects) : effects[i].end_sec > effects[i].start_sec

\* C28: the returned segments have person_count >= 1 and start <= end, are
\* in strictly increasing time order, and between two consecutive ones there
\* is a sampled time with person_count = 0; the planner gets no segment
\* with person_count = 0 from the detector.
C28_SegmentsWellFormed ==
    /\ detPc \in {"returned", "planned"} =>
          LET segs == detResult.value IN
          /\ \A k \in 1..Len(segs) :
                /\ segs[k].person_count >= 1
                /\ segs[k].start_sec <= segs[k].end_sec
          /\ \A k \in 1..(Len(segs) - 1) :
                /\ segs[k + 1].start_sec > segs[k].end_sec
                /\ \E i \in 1..Len(samples) :
                      /\ samples[i].person_count = 0
                      /\ segs[k].end_sec < samples[i].time
                      /\ samples[i].time < segs[k + 1].start_sec
    /\ detPc = "planned" =>
          \A k \in 1..Len(person_segments) : person_segments[k].person_count >= 1

\* Two segments, the first of a single sample, handed to the planner.
C28_Witness ==
    /\ detPc = "planned" /\ Len(person_segments) = 2
    /\ person_segments[1].start_sec = person_segments[1].end_sec
    /\ person_segments[2].start_sec < person_segments[2].end_sec
    /\ Len(samples) >= 4

(***************************************************************************)
(* Properties of run_pipeline_multi (SpecPipe).                            *)
(***************************************************************************)
\* Two cuts share no stretch of source time (a common end point is allowed).
CutsDisjoint(a, b) == a[1] + a[2] <= b[1] \/ b[1] + b[2] <= a[1]

\* C30: the clips cut by run_pipeline_multi are pairwise non-overlapping in
\* source time: no two of the intervals [out_start, out_start + duration]
\* passed to cut_segment intersect, whatever idea_end, min_dur, max_dur,
\* head_pad_sec and tail_pad_sec are.
C30_ClipsDisjoint ==
    pipePc = "done" =>
        \A i \in 1..Len(cuts) : \A j \in 1..Len(cuts) :
            i < j => CutsDisjoint(cuts[i], cuts[j])

====
